---- MODULE Spec2Model ----
(***************************************************************************)
(* Model of the DS-2002 insurance data-mart ETL: etl_pipeline.py (SQLite   *)
(* variant) and etl_pipeline_mysql.py (MySQL variant).                     *)
(*                                                                         *)
(* Data representation                                                     *)
(*   - a DataFrame is a sequence of records (row order = index order);     *)
(*   - a Python str that the code transforms or sorts (the region label)   *)
(*     is a sequence of ASCII codes; other strings are TLA+ strings;       *)
(*   - bmi is held in tenths (18.5 is 185);                                *)
(*   - a datetime is a record [year, month, day];                          *)
(*   - the SHA-256 digest of str(row_id), read as an integer, is the       *)
(*     value sha256[row_id] of a function fixed for the whole behaviour    *)
(*     and drawn from a bounded family (the real digests do not fit TLC's  *)
(*     integers; only digest % 365 is used by the code).                   *)
(***************************************************************************)
EXTENDS Integers, Sequences, FiniteSets, TLC

VARIABLES
    variant,            \* "sqlite" (etl_pipeline.py) or "mysql" (etl_pipeline_mysql.py)
    insurance_csv,      \* data/insurance.csv: its rows, or Absent
    providers_src,      \* providers.json "regions" / the Mongo collection: rows, or Absent
    sha256,             \* row_id -> integer value of sha256(str(row_id))
    run,                \* number of the current execution of main()
    ip,                 \* index of the next statement group of main() (see MainSteps)
    status,             \* "running", "done" or "failed"
    error,              \* the exception that ended the run, or "none"
    insurance,          \* DataFrame read from insurance_csv
    providers,          \* DataFrame of region reference rows
    insured,            \* transformed insurance rows
    regions,            \* region dimension
    insured_dim,        \* insured dimension
    dim_date,           \* date dimension
    ins_enriched,       \* insurance rows joined to the dimensions
    fact,               \* fact rows
    db,                 \* destination store: table name -> rows
    dbLog,              \* destination actions performed by the current run (history)
    dbBefore,           \* db at the start of the current run (history)
    dbDone,             \* <<db at the end of the first completed run>>, or <<>> (history)
    call_args,          \* arguments of a direct call of one of the pure functions
    call_results        \* results of the successive calls made with call_args

pipelineVars == <<variant, insurance_csv, providers_src, run, ip,
                  status, error, insurance, providers, insured, regions, insured_dim,
                  dim_date, ins_enriched, fact, db, dbLog, dbBefore, dbDone>>
callVars == <<call_args, call_results>>
vars == <<pipelineVars, sha256, callVars>>

(***************************************************************************)
(* Bounds of the model                                                     *)
(***************************************************************************)
MaxRows == 2        \* raw records in insurance.csv
MaxRuns == 2        \* successive executions of main()
MaxAge == 203       \* largest age passed to age_band
MinAge == 3         \* ages from -MinAge
MaxDigest == 740    \* digests range over 0..MaxDigest
MaxCalls == 2       \* repeated calls of deterministc_date_for_row

\* a source file / collection: present with its rows, or absent
File(rows) == [exists |-> TRUE, rows |-> rows]
Absent == [exists |-> FALSE, rows |-> <<>>]
NaN == "NaN"                \* pandas missing value in an object column

(***************************************************************************)
(* Calendar arithmetic of datetime / timedelta                             *)
(***************************************************************************)
Date(y, m, d) == [year |-> y, month |-> m, day |-> d]

IsLeap(y) == (y % 4 = 0) /\ ((y % 100 # 0) \/ (y % 400 = 0))

DaysInMonth(y, m) ==
    IF m = 2 THEN (IF IsLeap(y) THEN 29 ELSE 28)
    ELSE IF m \in {4, 6, 9, 11} THEN 30 ELSE 31

DaysBeforeYear(y) ==
    LET p == y - 1 IN p * 365 + (p \div 4) - (p \div 100) + (p \div 400)

RECURSIVE DaysBeforeMonth(_, _)
DaysBeforeMonth(y, m) ==
    IF m = 1 THEN 0 ELSE DaysBeforeMonth(y, m - 1) + DaysInMonth(y, m - 1)

\* datetime.toordinal(): 1 for 0001-01-01
ToOrdinal(dt) == DaysBeforeYear(dt.year) + DaysBeforeMonth(dt.year, dt.month) + dt.day

\* datetime.weekday(): Monday is 0
Weekday(dt) == (ToOrdinal(dt) + 6) % 7

\* datetime.isoweekday(): Monday is 1
IsoWeekday(dt) == ((ToOrdinal(dt) + 6) % 7) + 1

\* datetime.fromordinal(n): the date whose ordinal is n
FromOrdinal(n) ==
    LET y == CHOOSE c \in (n \div 366)..((n \div 365) + 1) :
                 DaysBeforeYear(c) < n /\ n <= DaysBeforeYear(c + 1)
        r == n - DaysBeforeYear(y)
        m == CHOOSE c \in 1..12 :
                 DaysBeforeMonth(y, c) < r /\ r <= DaysBeforeMonth(y, c) + DaysInMonth(y, c)
    IN Date(y, m, r - DaysBeforeMonth(y, m))

\* dt + timedelta(days=n)
AddDays(dt, n) == FromOrdinal(ToOrdinal(dt) + n)

\* cur < end_dt
DateLT(a, b) == ToOrdinal(a) < ToOrdinal(b)

\* cur <= end_dt
DateLE(a, b) == ToOrdinal(a) <= ToOrdinal(b)

\* int(dt.strftime("%Y%m%d"))
StrftimeYmdInt(dt) == dt.year * 10000 + dt.month * 100 + dt.day

\* dt.strftime("%A"), dt.strftime("%B")
DayNames == <<"Monday", "Tuesday", "Wednesday", "Thursday", "Friday", "Saturday", "Sunday">>
MonthNames == <<"January", "February", "March", "April", "May", "June", "July",
                "August", "September", "October", "November", "December">>

(***************************************************************************)
(* make_date_dim                                                           *)
(***************************************************************************)
DateRow(cur) ==
    [date_key |-> StrftimeYmdInt(cur),
     full_date |-> <<cur.year, cur.month, cur.day>>,   \* cur.date().isoformat() fields
     day_of_week |-> IsoWeekday(cur),
     day_name |-> DayNames[Weekday(cur) + 1],
     month_of_year |-> cur.month,
     month_name |-> MonthNames[cur.month],
     calendar_quarter |-> ((cur.month - 1) \div 3) + 1,
     calendar_year |-> cur.year,
     is_weekend |-> IF Weekday(cur) >= 5 THEN 1 ELSE 0]

\* The while loop of make_date_dim, evaluated month by month to bound the depth
\* of the evaluation: MonthLoop runs the iterations whose cur is in month m and
\* returns <<cur, rows>> as they are when the loop leaves the month or ends.
RECURSIVE MonthLoop(_, _, _, _)
MonthLoop(cur, end_dt, rows, m) ==
    IF DateLE(cur, end_dt) /\ cur.month = m
    THEN MonthLoop(AddDays(cur, 1), end_dt, Append(rows, DateRow(cur)), m)
    ELSE <<cur, rows>>

\* while cur <= end_dt: rows.append({...}); cur += timedelta(days=1)
RECURSIVE DateLoop(_, _, _)
DateLoop(cur, end_dt, rows) ==
    IF DateLE(cur, end_dt)
    THEN LET b == MonthLoop(cur, end_dt, rows, cur.month)
         IN DateLoop(b[1], end_dt, b[2])
    ELSE rows

make_date_dim(start, end) == DateLoop(start, end, <<>>)

(***************************************************************************)
(* age_band, bmi_category                                                  *)
(***************************************************************************)
bins == << <<0, 17, "0-17">>, <<18, 24, "18-24">>, <<25, 34, "25-34">>, <<35, 44, "35-44">>,
           <<45, 54, "45-54">>, <<55, 64, "55-64">>, <<65, 200, "65+">> >>

\* for lo,hi,label in bins: if lo <= age <= hi: return label ... return "unknown"
age_band(age) ==
    LET hits == {i \in 1..Len(bins) : bins[i][1] <= age /\ age <= bins[i][2]}
    IN IF hits = {} THEN "unknown"
       ELSE bins[CHOOSE i \in hits : \A j \in hits : i <= j][3]

\* bmi in tenths: 18.5 is 185
bmi_category(bmi) ==
    IF bmi < 185 THEN "Underweight"
    ELSE IF bmi < 250 THEN "Normal"
    ELSE IF bmi < 300 THEN "Overweight"
    ELSE "Obese"

(***************************************************************************)
(* deterministc_date_for_row                                               *)
(***************************************************************************)
\* day_of_year = (rnd % 366) + 1
DeterministcDateMod366(row_id, year) ==
    LET rnd == sha256[row_id]
        day_of_year == (rnd % 366) + 1
        dt == AddDays(Date(year, 1, 1), day_of_year - 1)
    IN StrftimeYmdInt(dt)

\* dt = datetime(year, 1, 1) + timedelta(days=day_of_year)
DeterministcDateOffByOne(row_id, year) ==
    LET rnd == sha256[row_id]
        day_of_year == (rnd % 365) + 1
        dt == AddDays(Date(year, 1, 1), day_of_year)
    IN StrftimeYmdInt(dt)

\* a date that changes from one execution to the next (random instead of the hash)
DeterministcDatePerRun(row_id, year) ==
    LET rnd == sha256[row_id] + run
        day_of_year == (rnd % 365) + 1
        dt == AddDays(Date(year, 1, 1), day_of_year - 1)
    IN StrftimeYmdInt(dt)

deterministc_date_for_row(row_id, year) ==
    LET rnd == sha256[row_id]
        day_of_year == (rnd % 365) + 1
        dt == AddDays(Date(year, 1, 1), day_of_year - 1)
    IN StrftimeYmdInt(dt)

(***************************************************************************)
(* Python str operations on region labels (sequences of ASCII codes)       *)
(***************************************************************************)
IsSpace(c) == c \in {9, 10, 11, 12, 13, 32}

RECURSIVE LStrip(_)
LStrip(s) == IF s # <<>> /\ IsSpace(Head(s)) THEN LStrip(Tail(s)) ELSE s

RECURSIVE RStrip(_)
RStrip(s) ==
    IF s # <<>> /\ IsSpace(s[Len(s)]) THEN RStrip(SubSeq(s, 1, Len(s) - 1)) ELSE s

\* Series.str.strip()
StrStrip(s) == RStrip(LStrip(s))

\* Series.str.lower()
StrLower(s) == [i \in 1..Len(s) |-> IF s[i] >= 65 /\ s[i] <= 90 THEN s[i] + 32 ELSE s[i]]

\* a < b for Python str
RECURSIVE StrLT(_, _)
StrLT(a, b) ==
    IF b = <<>> THEN FALSE
    ELSE IF a = <<>> THEN TRUE
    ELSE IF Head(a) # Head(b) THEN Head(a) < Head(b)
    ELSE StrLT(Tail(a), Tail(b))

(***************************************************************************)
(* pandas DataFrame operations                                             *)
(***************************************************************************)
\* df[cols]
Project(df, cols) == [i \in 1..Len(df) |-> [c \in cols |-> df[i][c]]]

\* df.drop_duplicates(): the first occurrence of each row is kept, in order
DropDuplicates(df) ==
    LET keep[i \in 0..Len(df)] ==
            IF i = 0 THEN <<>>
            ELSE IF \E j \in 1..(i - 1) : df[j] = df[i] THEN keep[i - 1]
            ELSE Append(keep[i - 1], df[i])
    IN keep[Len(df)]

\* the rows of right that match row l on the columns `on`, in right's order
Matches(l, right, on) ==
    LET hit(r) == \A c \in on : r[c] = l[c] IN SelectSeq(right, hit)

\* left.merge(right, on=on, how="left"): left order kept, one output row per
\* matching right row, the right columns missing (nulls) when nothing matches
MergeLeft(left, right, on, nulls) ==
    LET out[i \in 0..Len(left)] ==
            IF i = 0 THEN <<>>
            ELSE LET m == Matches(left[i], right, on)
                 IN IF m = <<>> THEN Append(out[i - 1], left[i] @@ nulls)
                    ELSE out[i - 1] \o [j \in 1..Len(m) |-> left[i] @@ m[j]]
    IN out[Len(left)]

\* df.sort_values("region"): ascending, equal keys keep their order
RECURSIVE InsertByRegion(_, _)
InsertByRegion(sorted, row) ==
    IF sorted = <<>> THEN <<row>>
    ELSE IF StrLT(row.region, Head(sorted).region) THEN <<row>> \o sorted
    ELSE <<Head(sorted)>> \o InsertByRegion(Tail(sorted), row)

SortValuesRegion(df) ==
    LET acc[i \in 0..Len(df)] ==
            IF i = 0 THEN <<>> ELSE InsertByRegion(acc[i - 1], df[i])
    IN acc[Len(df)]

\* df.reset_index(drop=True); df[key] = df.index + 1
WithIndexKey(df, key) == [i \in 1..Len(df) |-> df[i] @@ (key :> i)]

(***************************************************************************)
(* Source contents                                                         *)
(***************************************************************************)
East == <<101, 97, 115, 116>>                 \* "east"
EastRaw == <<32, 69, 97, 115, 116, 32>>       \* " East "
West == <<119, 101, 115, 116>>                \* "west"

RawRecords ==
    { [age |-> 25, sex |-> "female", bmi |-> 220, children |-> 0, smoker |-> "no",
       region |-> EastRaw, charges |-> 1000],
      [age |-> 70, sex |-> "male", bmi |-> 310, children |-> 2, smoker |-> "yes",
       region |-> East, charges |-> 5000],
      [age |-> 25, sex |-> "female", bmi |-> 220, children |-> 0, smoker |-> "no",
       region |-> West, charges |-> 1200] }

InsuranceFiles == UNION {[1..n -> RawRecords] : n \in 0..MaxRows}

ProvEastA == [region |-> East, preferred_provider |-> "Acme", network_tier |-> "gold"]
ProvEastB == [region |-> East, preferred_provider |-> "Best", network_tier |-> "silver"]
ProvWestA == [region |-> West, preferred_provider |-> "Acme", network_tier |-> "gold"]

\* reference documents: empty, partial, complete, a label listed twice with the
\* same and with different attributes
ProviderDocs ==
    { <<>>, <<ProvWestA>>, <<ProvEastA, ProvWestA>>, <<ProvEastA, ProvEastA>>,
      <<ProvEastA, ProvEastB>> }

MaxDocLen == CHOOSE n \in {Len(d) : d \in ProviderDocs} :
                 \A d \in ProviderDocs : Len(d) <= n

RowIds == 1..(MaxRows * MaxDocLen + 1)

\* digests: row_id -> (seed + row_id) % (MaxDigest + 1)
ShaFamily(seeds) == {[i \in RowIds |-> (b + i) % (MaxDigest + 1)] : b \in seeds}

PipelineSeeds == {363}

TargetYear == 2010
DimDateStart == Date(2010, 1, 1)
DimDateEnd == Date(2010, 12, 31)

\* make_date_dim("2010-01-01","2010-12-31")
DimDate2010 == make_date_dim(DimDateStart, DimDateEnd)

InsuredCols == {"age", "age_band", "sex", "smoker", "bmi", "bmi_category", "children"}

(***************************************************************************)
(* Destination store                                                       *)
(***************************************************************************)
Tables == {"dim_date", "dim_insured", "dim_region", "fact_claims"}

EmptyMart == [t \in Tables |-> <<>>]

\* the DDL script: the four tables are dropped and created empty
DropAndCreate(store) == EmptyMart

\* fact_claims.claim_key when the inserted frame has no claim_key column:
\* the next values of the table's key sequence
AutoIncrement(existing, rows) ==
    [i \in 1..Len(rows) |-> rows[i] @@ ("claim_key" :> (Len(existing) + i))]

\* DataFrame.to_sql(table, ..., if_exists="append", index=False)
ToSql(store, table, rows) == [store EXCEPT ![table] = @ \o rows]

(***************************************************************************)
(* main(): the statement groups in source order.  A run executes           *)
(* MainSteps(variant)[ip] and moves to ip + 1; an exception ends the run.  *)
(* etl_pipeline.py ends at its fact step: line 139 calls np.arange, and    *)
(* the module never imports numpy (lines 24-26), so the NameError ends     *)
(* every run there and lines 140-175 are never executed.                   *)
(***************************************************************************)
\* the schema is created before the sources are read
MainStepsSchemaFirst(v) ==
    IF v = "sqlite"
    THEN <<"build_classicmodels_sqlite", "read_insurance", "read_providers", "transform",
           "build_regions", "build_insured_dim", "build_date_dim", "build_fact">>
    ELSE <<"create_schema", "read_insurance", "transform", "load_region", "build_regions",
           "build_insured_dim", "build_date_dim", "build_fact",
           "load_dim_date", "load_dim_insured", "load_dim_region", "load_fact_claims">>

\* the fact table is inserted before the region dimension
MainStepsFactFirst(v) ==
    IF v = "sqlite"
    THEN <<"build_classicmodels_sqlite", "read_insurance", "read_providers", "transform",
           "build_regions", "build_insured_dim", "build_date_dim", "build_fact">>
    ELSE <<"read_insurance", "transform", "load_region", "build_regions",
           "build_insured_dim", "build_date_dim", "build_fact", "create_schema",
           "load_dim_date", "load_dim_insured", "load_fact_claims", "load_dim_region">>

MainSteps(v) ==
    IF v = "sqlite"
    THEN <<"build_classicmodels_sqlite", "read_insurance", "read_providers", "transform",
           "build_regions", "build_insured_dim", "build_date_dim", "build_fact">>
    ELSE <<"read_insurance", "transform", "load_region", "build_regions",
           "build_insured_dim", "build_date_dim", "build_fact", "create_schema",
           "load_dim_date", "load_dim_insured", "load_dim_region", "load_fact_claims">>

At(step) ==
    /\ status = "running"
    /\ ip <= Len(MainSteps(variant))
    /\ MainSteps(variant)[ip] = step

\* the statement group completed: control moves on, main() returns after the last
Proceed ==
    /\ ip' = ip + 1
    /\ status' = IF ip = Len(MainSteps(variant)) THEN "done" ELSE "running"
    /\ error' = error

\* an exception propagates out of main()
Raise(e) ==
    /\ ip' = ip
    /\ status' = "failed"
    /\ error' = e

\* history: db at the end of the first completed run
Snapshot == dbDone' = IF status' = "done" /\ dbDone = <<>> THEN <<db'>> ELSE dbDone

inputVars == <<variant, insurance_csv, providers_src, sha256, run,
               dbBefore, call_args, call_results>>
storeVars == <<db, dbLog>>

(***************************************************************************)
(* Extract                                                                 *)
(* USE_MONGO_FOR_REGION (etl_pipeline_mysql.py:27) is read from the        *)
(* environment of each run: either loader may be the one a run calls.      *)
(***************************************************************************)
\* build_classicmodels_sqlite(): writes sources/classicmodels.db and an extract
\* CSV, never the mart; an error of the SQL script is not caught (try/finally)
build_classicmodels_sqlite ==
    /\ At("build_classicmodels_sqlite")
    /\ \E outcome \in {"skipped", "extracted", "query_failed", "script_error"} :
          IF outcome = "script_error" THEN Raise("OperationalError") ELSE Proceed
    /\ UNCHANGED <<inputVars, storeVars, insurance, providers, insured, regions,
                   insured_dim, dim_date, ins_enriched, fact>>
    /\ Snapshot

\* insurance = pd.read_csv(ins_path)
ReadInsurance ==
    /\ At("read_insurance")
    /\ IF insurance_csv = Absent
       THEN Raise("FileNotFoundError") /\ insurance' = insurance
       ELSE Proceed /\ insurance' = insurance_csv.rows
    /\ UNCHANGED <<inputVars, storeVars, providers, insured, regions, insured_dim,
                   dim_date, ins_enriched, fact>>
    /\ Snapshot

\* with open(providers_path) as f: ... providers = pd.DataFrame(providers_doc["regions"])
ReadProviders ==
    /\ At("read_providers")
    /\ IF providers_src = Absent
       THEN Raise("FileNotFoundError") /\ providers' = providers
       ELSE Proceed /\ providers' = providers_src.rows
    /\ UNCHANGED <<inputVars, storeVars, insurance, insured, regions, insured_dim,
                   dim_date, ins_enriched, fact>>
    /\ Snapshot

\* USE_MONGO_FOR_REGION is false (the environment of this run):
\* regions = load_region_from_json()
load_region_from_json ==
    /\ At("load_region")
    /\ IF providers_src = Absent
       THEN Raise("FileNotFoundError") /\ providers' = providers
       ELSE Proceed /\ providers' = providers_src.rows
    /\ UNCHANGED <<inputVars, storeVars, insurance, insured, regions, insured_dim,
                   dim_date, ins_enriched, fact>>
    /\ Snapshot

\* USE_MONGO_FOR_REGION is true: regions = load_region_from_mongo(); a collection that does not exist yields
\* no documents, hence a frame without columns
load_region_from_mongo ==
    /\ At("load_region")
    /\ Proceed
    /\ providers' = providers_src.rows
    /\ UNCHANGED <<inputVars, storeVars, insurance, insured, regions, insured_dim,
                   dim_date, ins_enriched, fact>>
    /\ Snapshot

(***************************************************************************)
(* Transform                                                               *)
(***************************************************************************)
TransformRow(r) ==
    [r EXCEPT !.region = StrLower(StrStrip(r.region))]
        @@ [age_band |-> age_band(r.age), bmi_category |-> bmi_category(r.bmi)]

\* age_band / bmi_category columns, region normalised
Transform ==
    /\ At("transform")
    /\ insured' = [i \in 1..Len(insurance) |-> TransformRow(insurance[i])]
    /\ Proceed
    /\ UNCHANGED <<inputVars, storeVars, insurance, providers, regions, insured_dim,
                   dim_date, ins_enriched, fact>>
    /\ Snapshot

NoEnrichment == [preferred_provider |-> NaN, network_tier |-> NaN]

\* insured[["region"]].drop_duplicates().merge(providers, on="region", how="left")
\* followed, in the MySQL variant only, by .drop_duplicates()
RegionsMerged(v, ins, ref) ==
    LET merged == MergeLeft(DropDuplicates(Project(ins, {"region"})), ref, {"region"},
                            NoEnrichment)
    IN IF v = "mysql" THEN DropDuplicates(merged) ELSE merged

\* a reference frame without rows has no "region" column: merge raises KeyError
BuildRegions ==
    /\ At("build_regions")
    /\ IF providers = <<>>
       THEN Raise("KeyError") /\ regions' = regions
       ELSE /\ regions' = WithIndexKey(
                   SortValuesRegion(RegionsMerged(variant, insured, providers)),
                   "region_key")
            /\ Proceed
    /\ UNCHANGED <<inputVars, storeVars, insurance, providers, insured, insured_dim,
                   dim_date, ins_enriched, fact>>
    /\ Snapshot

\* insured[[...]].drop_duplicates().reset_index(drop=True); insured_key = index + 1
InsuredDim(ins) == WithIndexKey(DropDuplicates(Project(ins, InsuredCols)), "insured_key")

BuildInsuredDim ==
    /\ At("build_insured_dim")
    /\ insured_dim' = InsuredDim(insured)
    /\ Proceed
    /\ UNCHANGED <<inputVars, storeVars, insurance, providers, insured, regions,
                   dim_date, ins_enriched, fact>>
    /\ Snapshot

\* dim_date = make_date_dim("2010-01-01","2010-12-31")
BuildDateDim ==
    /\ At("build_date_dim")
    /\ dim_date' = DimDate2010
    /\ Proceed
    /\ UNCHANGED <<inputVars, storeVars, insurance, providers, insured, regions,
                   insured_dim, ins_enriched, fact>>
    /\ Snapshot

\* the two merges of the fact step
Enriched(ins, idim, rdim) ==
    MergeLeft(MergeLeft(ins, idim, InsuredCols, [insured_key |-> NaN]),
              Project(rdim, {"region", "region_key"}), {"region"}, [region_key |-> NaN])

\* row_id = 1..len, date_key = deterministc_date_for_row(row_id, 2010)
WithRowIdAndDate(df) ==
    [i \in 1..Len(df) |->
        df[i] @@ [row_id |-> i, date_key |-> deterministc_date_for_row(i, TargetYear)]]

FactCols == {"insured_key", "region_key", "date_key", "charges"}

\* etl_pipeline.py: NameError at np.arange, after the merges
\* etl_pipeline_mysql.py: row_id, date_key, fact
BuildFact ==
    /\ At("build_fact")
    /\ IF variant = "sqlite"
       THEN /\ ins_enriched' = Enriched(insured, insured_dim, regions)
            /\ fact' = fact
            /\ Raise("NameError")
       ELSE /\ ins_enriched' = WithRowIdAndDate(Enriched(insured, insured_dim, regions))
            /\ fact' = Project(ins_enriched', FactCols)
            /\ Proceed
    /\ UNCHANGED <<inputVars, storeVars, insurance, providers, insured, regions,
                   insured_dim, dim_date>>
    /\ Snapshot

(***************************************************************************)
(* Load (etl_pipeline_mysql.py).  Each statement either completes or       *)
(* raises (a destination-write failure); every to_sql call runs in its own *)
(* transaction, so a failed insert leaves its table as it was and the      *)
(* tables already written stay written.                                    *)
(***************************************************************************)
DimInsuredCols == {"insured_key", "age", "age_band", "sex", "smoker", "bmi",
                   "bmi_category", "children"}
DimRegionCols == {"region_key", "region", "preferred_provider", "network_tier"}

\* with engine.begin() as conn: for stmt in ddl.split(";"): conn.execute(text(stmt))
\* The statements are those of sql/mysql_create_data_mart.sql (DropAndCreate);
\* a failure of the script is taken to leave the store as it was.
CreateSchema ==
    /\ At("create_schema")
    /\ \E ok \in BOOLEAN :
          IF ok
          THEN /\ db' = DropAndCreate(db)
               /\ dbLog' = Append(dbLog, "create_schema")
               /\ Proceed
          ELSE /\ UNCHANGED storeVars
               /\ Raise("DestinationWriteError")
    /\ UNCHANGED <<inputVars, insurance, providers, insured, regions, insured_dim,
                   dim_date, ins_enriched, fact>>
    /\ Snapshot

\* dim_date.to_sql("dim_date", engine, if_exists="append", index=False)
LoadDimDate ==
    /\ At("load_dim_date")
    /\ \E ok \in BOOLEAN :
          IF ok
          THEN /\ db' = ToSql(db, "dim_date", dim_date)
               /\ dbLog' = Append(dbLog, "dim_date")
               /\ Proceed
          ELSE /\ UNCHANGED storeVars
               /\ Raise("DestinationWriteError")
    /\ UNCHANGED <<inputVars, insurance, providers, insured, regions, insured_dim,
                   dim_date, ins_enriched, fact>>
    /\ Snapshot

\* insured_dim[[...]].to_sql("dim_insured", ...)
LoadDimInsured ==
    /\ At("load_dim_insured")
    /\ \E ok \in BOOLEAN :
          IF ok
          THEN /\ db' = ToSql(db, "dim_insured", Project(insured_dim, DimInsuredCols))
               /\ dbLog' = Append(dbLog, "dim_insured")
               /\ Proceed
          ELSE /\ UNCHANGED storeVars
               /\ Raise("DestinationWriteError")
    /\ UNCHANGED <<inputVars, insurance, providers, insured, regions, insured_dim,
                   dim_date, ins_enriched, fact>>
    /\ Snapshot

\* regions[[...]].to_sql("dim_region", ...)
LoadDimRegion ==
    /\ At("load_dim_region")
    /\ \E ok \in BOOLEAN :
          IF ok
          THEN /\ db' = ToSql(db, "dim_region", Project(regions, DimRegionCols))
               /\ dbLog' = Append(dbLog, "dim_region")
               /\ Proceed
          ELSE /\ UNCHANGED storeVars
               /\ Raise("DestinationWriteError")
    /\ UNCHANGED <<inputVars, insurance, providers, insured, regions, insured_dim,
                   dim_date, ins_enriched, fact>>
    /\ Snapshot

\* fact.to_sql("fact_claims", ...): the frame has no claim_key column
LoadFactClaims ==
    /\ At("load_fact_claims")
    /\ \E ok \in BOOLEAN :
          IF ok
          THEN /\ db' = ToSql(db, "fact_claims", AutoIncrement(db["fact_claims"], fact))
               /\ dbLog' = Append(dbLog, "fact_claims")
               /\ Proceed
          ELSE /\ UNCHANGED storeVars
               /\ Raise("DestinationWriteError")
    /\ UNCHANGED <<inputVars, insurance, providers, insured, regions, insured_dim,
                   dim_date, ins_enriched, fact>>
    /\ Snapshot

\* the operator runs main() again on the same sources: a new process, empty frames
Restart ==
    /\ status \in {"done", "failed"}
    /\ run < MaxRuns
    /\ run' = run + 1
    /\ ip' = 1
    /\ status' = "running"
    /\ error' = "none"
    /\ insurance' = <<>> /\ providers' = <<>> /\ insured' = <<>> /\ regions' = <<>>
    /\ insured_dim' = <<>> /\ dim_date' = <<>> /\ ins_enriched' = <<>> /\ fact' = <<>>
    /\ dbLog' = <<>>
    /\ dbBefore' = db
    /\ UNCHANGED <<variant, insurance_csv, providers_src, sha256,
                   db, dbDone, call_args, call_results>>

FramesEmpty ==
    /\ insurance = <<>> /\ providers = <<>> /\ insured = <<>> /\ regions = <<>>
    /\ insured_dim = <<>> /\ dim_date = <<>> /\ ins_enriched = <<>> /\ fact = <<>>

Init ==
    /\ variant \in {"sqlite", "mysql"}
    /\ insurance_csv \in {File(f) : f \in InsuranceFiles} \cup {Absent}
    /\ providers_src \in {File(d) : d \in ProviderDocs} \cup {Absent}
    /\ sha256 \in ShaFamily(PipelineSeeds)
    /\ run = 1 /\ ip = 1 /\ status = "running" /\ error = "none"
    /\ FramesEmpty
    /\ db = EmptyMart /\ dbLog = <<>> /\ dbBefore = EmptyMart /\ dbDone = <<>>
    /\ call_args = [fn |-> "none"] /\ call_results = <<>>

Next ==
    \/ build_classicmodels_sqlite
    \/ ReadInsurance
    \/ ReadProviders
    \/ load_region_from_json
    \/ load_region_from_mongo
    \/ Transform
    \/ BuildRegions
    \/ BuildInsuredDim
    \/ BuildDateDim
    \/ BuildFact
    \/ CreateSchema
    \/ LoadDimDate
    \/ LoadDimInsured
    \/ LoadDimRegion
    \/ LoadFactClaims
    \/ Restart

Spec == Init /\ [][Next]_vars

(***************************************************************************)
(* Direct calls of the pure functions, on inputs drawn from bounded sets   *)
(***************************************************************************)
PipelineIdle ==
    /\ variant = "none" /\ insurance_csv = Absent /\ providers_src = Absent
    /\ run = 0 /\ ip = 0 /\ status = "idle" /\ error = "none"
    /\ FramesEmpty
    /\ db = EmptyMart /\ dbLog = <<>> /\ dbBefore = EmptyMart /\ dbDone = <<>>

Ages == (0 - MinAge)..MaxAge

InitAge ==
    /\ PipelineIdle
    /\ sha256 \in ShaFamily({0})
    /\ call_args \in {[fn |-> "age_band", age |-> a] : a \in Ages}
    /\ call_results = <<>>

\* age_band(age)
CallAgeBand ==
    /\ call_args.fn = "age_band"
    /\ call_results = <<>>
    /\ call_results' = <<age_band(call_args.age)>>
    /\ UNCHANGED <<pipelineVars, sha256, call_args>>

NextAge == CallAgeBand

SpecAge == InitAge /\ [][NextAge]_vars

\* start and end dates around month ends, a leap day, a year end and weekends
TestDates ==
    { Date(2011, 12, 30), Date(2011, 12, 31), Date(2012, 1, 1), Date(2012, 1, 7),
      Date(2012, 1, 8), Date(2012, 2, 28), Date(2012, 2, 29), Date(2012, 3, 1),
      Date(2012, 4, 30), Date(2013, 2, 28), Date(2013, 3, 1) }

InitDate ==
    /\ PipelineIdle
    /\ sha256 \in ShaFamily({0})
    /\ call_args \in {[fn |-> "make_date_dim", start |-> s, end |-> e] :
                          s \in TestDates, e \in TestDates}
    /\ call_results = <<>>

\* make_date_dim(start, end)
CallMakeDateDim ==
    /\ call_args.fn = "make_date_dim"
    /\ call_results = <<>>
    /\ call_results' = <<make_date_dim(call_args.start, call_args.end)>>
    /\ UNCHANGED <<pipelineVars, sha256, call_args>>

NextDate == CallMakeDateDim

SpecDate == InitDate /\ [][NextDate]_vars

\* a common year, a leap year, a leap and a common century year
TestYears == {2010, 2012, 2000, 2100}

InitAssign ==
    /\ PipelineIdle
    /\ sha256 \in ShaFamily(0..MaxDigest)
    /\ call_args \in {[fn |-> "deterministc_date_for_row", row_id |-> r, year |-> y] :
                          r \in {1, 2}, y \in TestYears}
    /\ call_results = <<>>

\* deterministc_date_for_row(row_id, year), called again with the same arguments
CallDeterministcDate ==
    /\ call_args.fn = "deterministc_date_for_row"
    /\ Len(call_results) < MaxCalls
    /\ call_results' = Append(call_results,
                              deterministc_date_for_row(call_args.row_id, call_args.year))
    /\ UNCHANGED <<pipelineVars, sha256, call_args>>

NextAssign == CallDeterministcDate

SpecAssign == InitAssign /\ [][NextAssign]_vars

(***************************************************************************)
(* Properties                                                              *)
(***************************************************************************)
\* the statement group `step` of the current run has completed
StepDone(step) ==
    \E k \in 1..Len(MainSteps(variant)) : MainSteps(variant)[k] = step /\ ip > k

Column(df, c) == {df[i][c] : i \in 1..Len(df)}

\* C1: once the fact step has completed, every fact row's insured_key is the key
\* of an insured-dimension row, its region_key the key of a region-dimension row
\* and its date_key the key of a row of the 2010 date dimension.
C1_ReferentialIntegrity ==
    StepDone("build_fact") =>
        \A i \in 1..Len(fact) :
            /\ \E j \in 1..Len(insured_dim) : insured_dim[j].insured_key = fact[i].insured_key
            /\ \E j \in 1..Len(regions) : regions[j].region_key = fact[i].region_key
            /\ \E j \in 1..Len(dim_date) : dim_date[j].date_key = fact[i].date_key
            /\ \E j \in 1..Len(DimDate2010) : DimDate2010[j].date_key = fact[i].date_key

C1_Witness ==
    /\ StepDone("build_fact")
    /\ Len(fact) >= 2
    /\ Len(regions) >= 2
    /\ \E i \in 1..Len(fact) : fact[i].date_key = 20101231

\* C2: the fact table has exactly one row per raw record, the i-th row carrying
\* the charges of the i-th record, and the loaded claim keys are 1..N in order.
C2_FactCardinality ==
    /\ StepDone("build_fact") =>
          /\ Len(fact) = Len(insurance)
          /\ \A i \in 1..Len(fact) : fact[i].charges = insurance[i].charges
    /\ status = "done" =>
          /\ Len(db["fact_claims"]) = Len(insurance)
          /\ \A i \in 1..Len(db["fact_claims"]) :
                /\ db["fact_claims"][i].claim_key = i
                /\ db["fact_claims"][i].charges = insurance[i].charges

\* the natural keys of the normalised raw records
RegionKeys == {StrLower(StrStrip(insurance[i].region)) : i \in 1..Len(insurance)}
InsuredKeys ==
    {[age |-> insurance[i].age, age_band |-> age_band(insurance[i].age),
      sex |-> insurance[i].sex, smoker |-> insurance[i].smoker, bmi |-> insurance[i].bmi,
      bmi_category |-> bmi_category(insurance[i].bmi), children |-> insurance[i].children] :
         i \in 1..Len(insurance)}

\* C3: each dimension has one row per distinct natural key of the normalised raw
\* records, no two rows share a natural key, and the surrogate keys are 1..N.
C3_DimensionUniqueness ==
    /\ StepDone("build_regions") =>
          /\ Len(regions) = Cardinality(RegionKeys)
          /\ \A i, j \in 1..Len(regions) : regions[i].region = regions[j].region => i = j
          /\ Column(regions, "region_key") = 1..Len(regions)
    /\ StepDone("build_insured_dim") =>
          /\ Len(insured_dim) = Cardinality(InsuredKeys)
          /\ \A i, j \in 1..Len(insured_dim) :
                (\A c \in InsuredCols : insured_dim[i][c] = insured_dim[j][c]) => i = j
          /\ Column(insured_dim, "insured_key") = 1..Len(insured_dim)

\* the partition of the integers the claim states
ClaimedAgeBand(a) ==
    IF a < 0 THEN "unknown"
    ELSE IF a <= 17 THEN "0-17"
    ELSE IF a <= 24 THEN "18-24"
    ELSE IF a <= 34 THEN "25-34"
    ELSE IF a <= 44 THEN "35-44"
    ELSE IF a <= 54 THEN "45-54"
    ELSE IF a <= 64 THEN "55-64"
    ELSE "65+"

\* C4: age_band returns the label of the range holding the age, "65+" for every
\* age from 65 up with no upper limit, and "unknown" only for negative ages.
C4_AgeBandPartition ==
    call_results # <<>> => call_results[1] = ClaimedAgeBand(call_args.age)

\* the mart the current run loads when every insert completes
CompleteMart ==
    [t \in Tables |->
        IF t = "dim_date" THEN dim_date
        ELSE IF t = "dim_insured" THEN Project(insured_dim, DimInsuredCols)
        ELSE IF t = "dim_region" THEN Project(regions, DimRegionCols)
        ELSE AutoIncrement(<<>>, fact)]

\* C5: after a run ended by a destination-write failure the destination holds
\* either what it held before the run or the complete new mart.
C5_NoPartialLoad ==
    (status = "failed" /\ error = "DestinationWriteError") =>
        (db = dbBefore \/ db = CompleteMart)

DimTables == {"dim_date", "dim_insured", "dim_region"}

\* C6: within a run the insert into fact_claims comes after the inserts into the
\* three dimension tables, and in every state of the load each fact row present
\* in the destination references dimension rows present in the destination.
C6_DimensionsBeforeFacts ==
    /\ \A k \in 1..Len(dbLog) :
          dbLog[k] = "fact_claims" =>
              \A t \in DimTables : \E j \in 1..(k - 1) : dbLog[j] = t
    /\ \A i \in 1..Len(db["fact_claims"]) :
          /\ db["fact_claims"][i].insured_key \in Column(db["dim_insured"], "insured_key")
          /\ db["fact_claims"][i].region_key \in Column(db["dim_region"], "region_key")
          /\ db["fact_claims"][i].date_key \in Column(db["dim_date"], "date_key")

C6_Witness ==
    /\ Len(dbLog) > 0 /\ dbLog[Len(dbLog)] = "fact_claims"
    /\ Len(db["fact_claims"]) >= 2
    /\ run >= 2

\* C7: the first destination action of a run discards the previous contents,
\* and a completed run leaves the destination exactly as the first completed
\* run on the same sources left it.
C7_FullRefreshIdempotent ==
    /\ dbLog # <<>> => dbLog[1] = "create_schema"
    /\ (status = "done" /\ dbDone # <<>>) => db = dbDone[1]
    /\ status = "done" => db = CompleteMart

C7_Witness ==
    /\ status = "done"
    /\ run >= 2
    /\ dbBefore = dbDone[1]
    /\ Len(db["fact_claims"]) >= 2

\* the date a key encodes
KeyDate(key) == Date(key \div 10000, (key \div 100) % 100, key % 100)

ValidDate(d) == d.month \in 1..12 /\ d.day >= 1 /\ d.day <= DaysInMonth(d.year, d.month)

\* C8: every call of deterministc_date_for_row(row_id, year) returns the key of
\* the date (digest mod 365) days after January 1 of year: a date of that year,
\* never December 31 of a leap year, and the same key at every call.
C8_DateWithinYear ==
    \A k \in 1..Len(call_results) :
        LET key == call_results[k]
            y == call_args.year
        IN /\ ValidDate(KeyDate(key))
           /\ key >= y * 10000 + 101
           /\ key <= y * 10000 + 1231
           /\ IsLeap(y) => key # y * 10000 + 1231
           /\ ToOrdinal(KeyDate(key)) - ToOrdinal(Date(y, 1, 1))
                  = sha256[call_args.row_id] % 365
           /\ key = call_results[1]

C8_Witness ==
    /\ Len(call_results) = 2
    /\ IsLeap(call_args.year)
    /\ sha256[call_args.row_id] > 365
    /\ call_results[2] = call_args.year * 10000 + 1230

\* C9: in a run whose insurance table or region reference is absent, no action
\* on the destination is performed and the run does not complete.
C9_MissingSourceAbortsBeforeLoad ==
    (insurance_csv = Absent \/ providers_src = Absent) =>
        /\ dbLog = <<>>
        /\ db = dbBefore
        /\ status # "done"

C9_Witness ==
    /\ status = "failed"
    /\ variant = "mysql"
    /\ insurance_csv # Absent
    /\ providers_src = Absent
    /\ error = "KeyError"
    /\ insured # <<>>

\* C10: make_date_dim(start, end) returns one row per day from start to end
\* inclusive, (end - start).days + 1 rows in strictly ascending date_key order,
\* is_weekend being 1 exactly on Saturdays and Sundays; no row when end < start.
C10_DateDimension ==
    call_results # <<>> =>
        LET rows == call_results[1]
            first == ToOrdinal(call_args.start)
            last == ToOrdinal(call_args.end)
        IN /\ Len(rows) = IF first <= last THEN (last - first) + 1 ELSE 0
           /\ \A i \in 1..Len(rows) :
                 LET d == Date(rows[i].full_date[1], rows[i].full_date[2],
                               rows[i].full_date[3])
                 IN /\ ValidDate(d)
                    /\ ToOrdinal(d) = first + i - 1
                    /\ rows[i].date_key = d.year * 10000 + d.month * 100 + d.day
                    /\ rows[i].is_weekend \in {0, 1}
                    /\ rows[i].is_weekend = 1 <=> rows[i].day_of_week \in {6, 7}
                    /\ rows[i].is_weekend = 1 <=> rows[i].day_name \in {"Saturday", "Sunday"}
           /\ \A i \in 1..(Len(rows) - 1) : rows[i].date_key < rows[i + 1].date_key

C10_Witness ==
    /\ call_results # <<>>
    /\ Len(call_results[1]) > 366
    /\ \E i \in 1..Len(call_results[1]) :
          /\ call_results[1][i].date_key = 20120229
          /\ call_results[1][i].day_name = "Wednesday"
    /\ \E i \in 1..Len(call_results[1]) :
          /\ call_results[1][i].date_key = 20120107
          /\ call_results[1][i].is_weekend = 1
          /\ call_results[1][i].day_name = "Saturday"

====
